---- MODULE Spec2Model ----
(***************************************************************************)
(* The WebSocket gateway of NeuronAI: the hub that owns the registry of    *)
(* live connections (backend/go/internal/websocket/hub.go), the read and   *)
(* write loops of each connection, the per-message worker that relays the  *)
(* backend's gRPC stream onto the connection's outbound queue              *)
(* (internal/grpc/client.go), and the Flutter client that decodes the      *)
(* frames (frontend/lib/services/websocket_service.dart and                *)
(* frontend/lib/providers/chat_provider.dart).  Beside the WebSocket path: *)
(* the REST handlers and their routes (cmd/gateway/main.go), the AI        *)
(* service's servicer and Orchestrator (docs, unnamed/part_003), and the   *)
(* Flutter client's WebSocketService and AuthProvider                      *)
(* (frontend/lib/providers/auth_provider.dart).                            *)
(***************************************************************************)
EXTENDS Integers, Sequences, FiniteSets, TLC

\* ---------------------------------------------------------------- bounds
NConn == 2          \* connection slots (handshakes) considered
MaxTask == 2        \* inbound chat messages (workers) considered
MaxChunks == 1      \* non-final chunks one backend stream may yield
SendCap == 2        \* capacity of Client.send (256 in hub.go:110)
MaxBroadcast == 1   \* messages offered on hub.broadcast
MaxHttp == 2        \* REST requests considered
MaxRuns == 2        \* requests the AI service handles
MaxHeartbeats == 1  \* responses without a chat payload on one stream
MaxUnparsed == 1    \* unparseable frames read on one connection
MaxForward == 2     \* REST requests whose forwarding is followed
MaxSessions == 2    \* sessions one ChatProvider creates
MaxSends == 2       \* messages one ChatProvider sends
MaxFragments == 2   \* fragments the gateway sends on one channel

Conn == 1..NConn
\* the sessions of one ChatProvider, in the order of their creation
ChatSessions == 1..MaxSessions
Task == 1..MaxTask

\* query parameters of the handshake; "" is an absent parameter
UserIDs == {"", "u1"}
SessionIDs == {"", "s1", "s2"}

\* What the client may put in an inbound frame: unparseable bytes, or a JSON
\* object with a user_id / session_id of its own choosing.  Every user_id
\* here differs from the user of every connection ("u1"): none of these
\* frames states the identity its connection was registered with.
\* Each is a chat frame: it has a content, and "chat" as its type.
InFrames ==
    {[ok |-> FALSE, type |-> "", user_id |-> "", session_id |-> "", content |-> ""]} \cup
    {[ok |-> TRUE, type |-> "chat", user_id |-> p[1], session_id |-> p[2],
      content |-> "hello"] :
        p \in {<<"", "">>, <<"u2", "s1">>, <<"u2", "s2">>}}

\* The frames of the Flutter client and of a client that follows the
\* documented framing: ChatProvider.sendMessage sends
\* {'content': .., 'message_type': ..} without a type, the ping timer of
\* WebSocketService sends {'type': 'ping'}; a typed chat frame may have an
\* empty content.  json.Unmarshal into pb.ChatRequest accepts them all:
\* unknown keys are ignored and missing ones leave the zero value.
ClientFrames ==
    InFrames \cup
    {[ok |-> TRUE, type |-> "", user_id |-> "", session_id |-> "", content |-> "hello"],
     [ok |-> TRUE, type |-> "ping", user_id |-> "", session_id |-> "", content |-> ""],
     [ok |-> TRUE, type |-> "chat", user_id |-> "", session_id |-> "", content |-> ""]}

NoReq == [UserId |-> "", SessionId |-> "", Content |-> ""]

\* The token of a handshake request (api.md:147-150, `/ws?token=<jwt>`):
\* "absent", or the name of the user a valid token was issued to.
\* websocket_service.dart:25: the Flutter client connects with
\* `/ws?user_id=..&session_id=..` and no token.
FlutterTokens == {"absent"}

\* what the classifiers of Orchestrator._determine_agents see in a content
Contents == [openQuestion : BOOLEAN, codeLike : BOOLEAN, imageIntent : BOOLEAN]
NoContent == [openQuestion |-> FALSE, codeLike |-> FALSE, imageIntent |-> FALSE]

VARIABLES
    rpc,        \* readPump of each connection: none, rejected, reading, unregistering, closed
    wpc,        \* writePump of each connection: none, running, exited
    userID,     \* Client.userID
    sessionID,  \* Client.sessionID
    clients,    \* Hub.clients (the registry)
    send,       \* Client.send: the buffered outbound queue
    closeCount, \* number of close(client.send) executed on each queue
    dropped,    \* connections removed by the hub's broadcast case
    bcast,      \* messages the hub has taken from hub.broadcast
    written,    \* WebSocket text frames written by writePump, in order
    tpc,        \* handleMessage worker: unused, open, recv, send, done, panicked
    tconn,      \* the connection a worker was started on
    treq,       \* the ChatRequest forwarded to ProcessStream
    recvd,      \* responses the worker has received from the backend stream
    crashed,    \* the gateway process died of an unrecovered panic
    sharedIds,  \* whether the backend reuses one message id for a response
    clientPos,  \* frames of the connection the Flutter client has handled
    clientMsgs, \* ChatProvider._messages of the client on each connection
    wsToken,    \* the token the handshake request of each Client carried
    cancelled,  \* tasks a cancellation signal was issued for
    httpLog,    \* the REST exchanges served so far, each with its response
    forwarded,  \* the REST exchanges with the request handed to the AI client
    currentSession, \* ChatProvider._currentSession, 0 for null
    sessions,       \* the number of sessions in ChatProvider._sessions
    chatMessages,   \* ChatProvider._messages of that provider
    chatLoading,    \* its _isLoading
    chatError,      \* its _error
    channel,        \* WebSocketService._channel: the session it was opened for, 0 for null
    isConnected,    \* WebSocketService._isConnected
    channelState,   \* each channel ever opened: "none", "open" or "done"
    answering,      \* the requests the gateway is still answering on each channel
    fragments,      \* the fragments the gateway has sent on each channel
    sends,          \* the calls of ChatProvider.sendMessage
    orchPc,     \* the servicer / Orchestrator: idle, pipeline, streaming, raised, returned
    content,    \* request.content of the request being processed
    required,   \* required_agents of Orchestrator.process_chat
    agentIdx,   \* position of the pipeline loop in required_agents
    invoked,    \* agents whose execute() was called, in order
    emitted,    \* fragments yielded by Orchestrator.stream_chat
    served,     \* the replies the servicer has given, in order
    converted,  \* message types converted for the backend, with their results
    isLoading,  \* ChatProvider._isLoading of the client on each connection
    isStreaming, \* ChatProvider._isStreaming of the client on each connection
    wsChannel,  \* WebSocketService._channel: null, open, or done (its stream ended)
    wsIsConnected, \* WebSocketService._isConnected
    wsPingTimer, \* whether _pingTimer refers to a running periodic timer
    wsStale,    \* whether a channel closed by disconnect() has yet to report onDone
    wsClosed,   \* whether _messageController and _connectionController are closed
    wsEvents,   \* the values added to _connectionController, in order
    wsPings,    \* the ping frames put on the channel's sink
    wsThrew,    \* the operations and callbacks that ended with a StateError
    wsOps,      \* operations and stream events of the service so far
    authToken,  \* AuthProvider._token
    authUser,   \* the id of AuthProvider._user
    authLoading, \* AuthProvider._isLoading
    authError,  \* whether AuthProvider._error is set
    apiToken,   \* the token ApiService was given by setAuthToken
    storage,    \* the secure storage: the values under its three keys
    checkPc,    \* _checkAuth: readToken, readUserId, readEmail, done
    checkRead,  \* what _checkAuth has read so far
    loginPc,    \* login: idle, api, writeToken, writeUserId, writeEmail
    loginResult, \* how the last login that returned ended: none, ok, failed
    logins,     \* calls of login so far
    logoutPc,   \* logout: idle, delToken, delUserId, delEmail
    logouts,    \* calls of logout that have completed
    unparsed,   \* frames the read loop of each connection logged and skipped
    hubRunning  \* whether Hub.Run is still in its loop

vars == <<rpc, wpc, userID, sessionID, clients, send, closeCount, dropped,
          bcast, written, tpc, tconn, treq, recvd, crashed, sharedIds,
          clientPos, clientMsgs, wsToken, cancelled, httpLog, forwarded, orchPc,
          content, currentSession, sessions, chatMessages, chatLoading,
          chatError, channel, isConnected, channelState, answering, fragments,
          sends,
          required, agentIdx, invoked, emitted, served, converted,
          isLoading, isStreaming, wsChannel, wsIsConnected, wsPingTimer,
          wsStale, wsClosed, wsEvents, wsPings, wsThrew, wsOps, authToken,
          authUser, authLoading, authError, apiToken, storage, checkPc,
          checkRead, loginPc, loginResult, logins, logoutPc, logouts,
          unparsed, hubRunning>>

hubVars == <<clients, send, closeCount, dropped, bcast>>
connVars == <<rpc, wpc, userID, sessionID, wsToken>>
taskVars == <<tpc, tconn, treq, recvd>>
clientVars == <<clientPos, clientMsgs, isLoading, isStreaming>>
restVars == <<httpLog, forwarded>>
orchVars == <<orchPc, content, required, agentIdx, invoked, emitted, served>>
\* the state outside the WebSocket path of the gateway
\* the message-type conversions the gateway has made
convVars == <<converted>>
\* the state added beside the WebSocket path, REST and the Orchestrator
\* the Flutter client's WebSocketService
wsVars == <<wsChannel, wsIsConnected, wsPingTimer, wsStale, wsClosed,
            wsEvents, wsPings, wsThrew, wsOps>>
\* the Flutter client's AuthProvider, its ApiService and secure storage
authVars == <<authToken, authUser, authLoading, authError, apiToken, storage,
              checkPc, checkRead, loginPc, loginResult, logins, logoutPc,
              logouts>>
\* the read loops' skipped frames and the life of the hub's Run loop
gwVars == <<unparsed, hubRunning>>
\* one ChatProvider with its WebSocketService and the channels it opened
chatVars == <<currentSession, sessions, chatMessages, chatLoading, chatError,
              channel, isConnected, channelState, answering, fragments, sends>>
extVars == <<convVars, wsVars, authVars, gwVars, chatVars>>
outerVars == <<cancelled, restVars, orchVars, extVars>>
\* everything the gateway's WebSocket path, REST and the Orchestrator own
coreVars == <<connVars, hubVars, written, taskVars, crashed, sharedIds,
              clientVars, cancelled, restVars, orchVars, gwVars>>

\* ------------------------------------------------------------- helpers
RECURSIVE Flatten(_)
Flatten(fs) == IF fs = <<>> THEN <<>> ELSE Head(fs) \o Flatten(Tail(fs))

RECURSIVE OfTask(_, _)
OfTask(ms, t) ==
    IF ms = <<>> THEN <<>>
    ELSE IF Head(ms).task = t THEN <<Head(ms)>> \o OfTask(Tail(ms), t)
         ELSE OfTask(Tail(ms), t)

Front(s) == SubSeq(s, 1, Len(s) - 1)

IsPrefix(a, b) == Len(a) <= Len(b) /\ a = SubSeq(b, 1, Len(a))

InitGateway ==
    /\ rpc = [c \in Conn |-> "none"]
    /\ wpc = [c \in Conn |-> "none"]
    /\ userID = [c \in Conn |-> ""]
    /\ sessionID = [c \in Conn |-> ""]
    /\ clients = {}
    /\ send = [c \in Conn |-> <<>>]
    /\ closeCount = [c \in Conn |-> 0]
    /\ dropped = {}
    /\ bcast = 0
    /\ written = [c \in Conn |-> <<>>]
    /\ tpc = [t \in Task |-> "unused"]
    /\ tconn = [t \in Task |-> 0]
    /\ treq = [t \in Task |-> NoReq]
    /\ recvd = [t \in Task |-> <<>>]
    /\ crashed = FALSE
    /\ clientPos = [c \in Conn |-> 0]
    /\ clientMsgs = [c \in Conn |-> <<>>]
    /\ wsToken = [c \in Conn |-> ""]
    /\ cancelled = {}
    /\ httpLog = <<>>
    /\ forwarded = <<>>
    /\ currentSession = 0
    /\ sessions = 0
    /\ chatMessages = <<>>
    /\ chatLoading = FALSE
    /\ chatError = "null"
    /\ channel = 0
    /\ isConnected = FALSE
    /\ channelState = [k \in ChatSessions |-> "none"]
    /\ answering = [k \in ChatSessions |-> 0]
    /\ fragments = [k \in ChatSessions |-> 0]
    /\ sends = 0
    /\ orchPc = "idle"
    /\ content = NoContent
    /\ required = <<>>
    /\ agentIdx = 0
    /\ invoked = <<>>
    /\ emitted = <<>>
    /\ served = <<>>
    /\ converted = <<>>
    /\ isLoading = [c \in Conn |-> FALSE]
    /\ isStreaming = [c \in Conn |-> FALSE]
    /\ wsChannel = "null"
    /\ wsIsConnected = FALSE
    /\ wsPingTimer = FALSE
    /\ wsStale = FALSE
    /\ wsClosed = FALSE
    /\ wsEvents = <<>>
    /\ wsPings = 0
    /\ wsThrew = {}
    /\ wsOps = 0
    /\ authToken = "null"
    /\ authUser = "null"
    /\ authLoading = TRUE
    /\ authError = FALSE
    /\ apiToken = "null"
    /\ checkPc = "readToken"
    /\ checkRead = [token |-> "null", userId |-> "null"]
    /\ loginPc = "idle"
    /\ loginResult = "none"
    /\ logins = 0
    /\ logoutPc = "idle"
    /\ logouts = 0
    /\ unparsed = [c \in Conn |-> 0]
    /\ hubRunning = TRUE

\* a device on which nobody has logged in
NoCredentials == [token |-> "null", userId |-> "null", email |-> "null"]

\* a device that holds the credentials of an earlier login
StoredCredentials == [token |-> "stored", userId |-> "stored", email |-> "stored"]

\* The backend of the gateway's own tests (client_test.go, mockAIService)
\* puts one message id on every response of a stream.
Init == InitGateway /\ sharedIds = TRUE /\ storage = NoCredentials

\* The servicer's _build_stream_response is not part of the sources: the
\* fragments of a response share one message id, or each has its own.
InitRoundTrip == InitGateway /\ sharedIds \in BOOLEAN /\ storage = NoCredentials

\* ---------------------------------------------------- Hub.HandleWebSocket
\* The handshake: rejects an empty user_id or session_id, otherwise creates
\* the Client, hands it to the hub's register case and starts both loops.
\* The request r carries the query parameters u and s and the token tok;
\* the handler reads user_id and session_id only.
HandleWebSocket(c, u, s, tok) ==
    /\ ~crashed
    /\ rpc[c] = "none"
    /\ \A d \in Conn : d < c => rpc[d] # "none"
    /\ IF u = "" \/ s = ""
       THEN /\ rpc' = [rpc EXCEPT ![c] = "rejected"]
            /\ UNCHANGED <<wpc, userID, sessionID, wsToken, clients>>
       ELSE IF ~hubRunning
       THEN \* hub.go:115: nobody receives on hub.register, the send blocks
            /\ userID' = [userID EXCEPT ![c] = u]
            /\ sessionID' = [sessionID EXCEPT ![c] = s]
            /\ wsToken' = [wsToken EXCEPT ![c] = tok]
            /\ rpc' = [rpc EXCEPT ![c] = "registering"]
            /\ UNCHANGED <<wpc, clients>>
       ELSE /\ userID' = [userID EXCEPT ![c] = u]
            /\ sessionID' = [sessionID EXCEPT ![c] = s]
            /\ wsToken' = [wsToken EXCEPT ![c] = tok]
            /\ clients' = clients \cup {c}
            /\ rpc' = [rpc EXCEPT ![c] = "reading"]
            /\ wpc' = [wpc EXCEPT ![c] = "running"]
    /\ UNCHANGED <<send, closeCount, dropped, bcast, written, taskVars, crashed,
                   sharedIds, clientVars, outerVars>>

\* ------------------------------------------------------- Client.readPump
\* a faulty variant of hub.go:149-150: the identity the client wrote is kept
StampTrustingClient(c, f) ==
    [UserId |-> f.user_id, SessionId |-> f.session_id, Content |-> f.content]

\* hub.go:143-150: the frame is decoded into a ChatRequest, which keeps its
\* content, and the connection's identity overwrites whatever was parsed
Stamp(c, f) == [UserId |-> userID[c], SessionId |-> sessionID[c], Content |-> f.content]

FreeTask == {t \in Task : tpc[t] = "unused" /\ \A u \in Task : u < t => tpc[u] # "unused"}

\* a faulty variant of hub.go:152: handleMessage is called in the read
\* loop itself, which reads on when the request's stream has ended
ReadyToReadInline(c) == \A t \in Task : tconn[t] = c => tpc[t] \in {"unused", "done"}

\* hub.go:152: `go c.handleMessage(&req)` returns at once, so the loop is
\* back at ReadMessage whatever the workers of the connection are doing
ReadyToRead(c) == TRUE

\* One iteration of the read loop on a frame that was read without error
\* and parsed: it is stamped and handed to a new handleMessage goroutine.
ReadMessage(c, f) ==
    /\ ~crashed
    /\ rpc[c] = "reading"
    /\ wpc[c] # "exited"
    /\ ReadyToRead(c)
    /\ f.ok
    /\ \E t \in FreeTask :
          /\ tpc' = [tpc EXCEPT ![t] = "open"]
          /\ tconn' = [tconn EXCEPT ![t] = c]
          /\ treq' = [treq EXCEPT ![t] = Stamp(c, f)]
          /\ UNCHANGED recvd
    /\ UNCHANGED <<connVars, hubVars, written, crashed, sharedIds, clientVars, outerVars>>

\* a faulty variant of hub.go:146: `break` in place of `continue`
AfterUnparsedBreak == "unregistering"

\* hub.go:146: `continue`, the loop is back at ReadMessage
AfterUnparsed == "reading"

\* One iteration of the read loop on a frame that json.Unmarshal rejects
\* (hub.go:143-147): the failure is logged and the loop continues
ReadUnparsed(c, f) ==
    /\ ~crashed
    /\ rpc[c] = "reading"
    /\ wpc[c] # "exited"
    /\ ReadyToRead(c)
    /\ ~f.ok
    /\ unparsed[c] < MaxUnparsed
    /\ unparsed' = [unparsed EXCEPT ![c] = @ + 1]
    /\ rpc' = [rpc EXCEPT ![c] = AfterUnparsed]
    /\ UNCHANGED <<wpc, userID, sessionID, wsToken, hubVars, written, taskVars, crashed, sharedIds,
                   clientVars, cancelled, restVars, orchVars, convVars, wsVars,
                   authVars, chatVars, hubRunning>>

\* ReadMessage returns an error (peer gone, read deadline, frame too large,
\* or the write loop closed the transport): the loop breaks and the deferred
\* function offers the client on hub.unregister.
ReadError(c) ==
    /\ ~crashed
    /\ rpc[c] = "reading"
    /\ rpc' = [rpc EXCEPT ![c] = "unregistering"]
    /\ UNCHANGED <<wpc, userID, sessionID, wsToken, hubVars, written, taskVars, crashed,
                   sharedIds, clientVars, outerVars>>

\* ---------------------------------------------------------------- Hub.Run
\* a faulty variant of hub.go:68: the queue is closed without the membership test
UnregisterFoundAlways(c) == TRUE

\* hub.go:68: `if _, ok := h.clients[client]; ok`
UnregisterFound(c) == c \in clients

\* The unregister case, a rendezvous with the read loop's deferred send; the
\* read loop then closes the transport and returns.
HubUnregister(c) ==
    /\ ~crashed
    /\ hubRunning
    /\ rpc[c] = "unregistering"
    /\ rpc' = [rpc EXCEPT ![c] = "closed"]
    /\ IF UnregisterFound(c)
       THEN /\ clients' = clients \ {c}
            /\ closeCount' = [closeCount EXCEPT ![c] = @ + 1]
            /\ crashed' = (closeCount[c] > 0)    \* close of a closed channel panics
       ELSE UNCHANGED <<clients, closeCount, crashed>>
    /\ UNCHANGED <<wpc, userID, sessionID, wsToken, send, dropped, bcast, written, taskVars,
                   sharedIds, clientVars, outerVars>>

\* The ctx.Done() case (hub.go:86-87): main cancels the context at shutdown
\* (main.go:73) and Run returns; nothing receives on hub.register,
\* hub.unregister or hub.broadcast from then on.
HubStop ==
    /\ ~crashed
    /\ hubRunning
    /\ hubRunning' = FALSE
    /\ UNCHANGED <<connVars, hubVars, written, taskVars, crashed, sharedIds,
                   clientVars, cancelled, restVars, orchVars, convVars, wsVars,
                   authVars, chatVars, unparsed>>

\* a message offered on hub.broadcast
BroadcastMsg == [task |-> 0, seq |-> 0, final |-> FALSE, id |-> <<0, 0>>, chat |-> TRUE]

\* a faulty variant of the default branch: the queue of a slow client is
\* closed and the client kept
BroadcastDeletedNone(full) == {}

\* hub.go:81: delete(h.clients, client) for every client whose queue was
\* full (and closed at hub.go:80)
BroadcastDeleted(full) == full

\* The broadcast case: a non-blocking send to every registered client; a
\* client whose queue is full has its queue closed and is deleted.
HubBroadcast(m) ==
    /\ ~crashed
    /\ hubRunning
    /\ bcast < MaxBroadcast
    /\ bcast' = bcast + 1
    /\ LET full == {c \in clients : Len(send[c]) >= SendCap} IN
         /\ send' = [c \in Conn |-> IF c \in clients \ full
                                    THEN Append(send[c], m) ELSE send[c]]
         /\ closeCount' = [c \in Conn |-> IF c \in full
                                          THEN closeCount[c] + 1 ELSE closeCount[c]]
         /\ clients' = clients \ BroadcastDeleted(full)
         /\ dropped' = dropped \cup full
    /\ UNCHANGED <<connVars, written, taskVars, crashed, sharedIds, clientVars, outerVars>>

\* -------------------------------------------------- Client.handleMessage
HasFinal(rs) == \E i \in 1..Len(rs) : rs[i].final

\* PythonClient.ProcessStream: open the stream and send the request on it
ProcessStream(t, ok) ==
    /\ ~crashed
    /\ tpc[t] = "open"
    /\ tpc' = [tpc EXCEPT ![t] = IF ok THEN "recv" ELSE "done"]
    /\ UNCHANGED <<connVars, hubVars, written, tconn, treq, recvd,
                   crashed, sharedIds, clientVars, outerVars>>

\* the message id the backend puts on the n-th response of task t
MessageId(t, n) == IF sharedIds THEN <<t, 0>> ELSE <<t, n>>

\* the responses without a chat payload among rs
NumHeartbeats(rs) == Cardinality({i \in 1..Len(rs) : ~rs[i].chat})

\* What StreamClient.Recv can return next: a chunk of stream_chat, the final
\* fragment that follows the chunks, or a failure of the stream; or, for a
\* StreamResponse that is a heartbeat or carries another payload than chat,
\* the nil that GetChat() gives (client.go:105).
\* After the final fragment stream_chat has returned and the servicer waits
\* for a request that never comes, so only a failure can follow.
StreamRecv(t, kind) ==
    /\ ~crashed
    /\ tpc[t] = "recv"
    /\ LET n == Len(recvd[t]) + 1 IN
       CASE kind = "chunk" ->
              /\ ~HasFinal(recvd[t])
              /\ Len(recvd[t]) < MaxChunks
              /\ recvd' = [recvd EXCEPT ![t] = Append(@,
                     [task |-> t, seq |-> n, final |-> FALSE, id |-> MessageId(t, n),
                      chat |-> TRUE])]
              /\ tpc' = [tpc EXCEPT ![t] = "send"]
         [] kind = "final" ->
              /\ ~HasFinal(recvd[t])
              /\ recvd' = [recvd EXCEPT ![t] = Append(@,
                     [task |-> t, seq |-> n, final |-> TRUE, id |-> MessageId(t, n),
                      chat |-> TRUE])]
              /\ tpc' = [tpc EXCEPT ![t] = "send"]
         [] kind = "heartbeat" ->
              /\ NumHeartbeats(recvd[t]) < MaxHeartbeats
              /\ recvd' = [recvd EXCEPT ![t] = Append(@,
                     [task |-> t, seq |-> n, final |-> FALSE, id |-> <<0, 0>>,
                      chat |-> FALSE])]
              /\ tpc' = [tpc EXCEPT ![t] = "send"]
         [] kind = "error" ->
              /\ tpc' = [tpc EXCEPT ![t] = "done"]
              /\ UNCHANGED recvd
    /\ UNCHANGED <<connVars, hubVars, written, tconn, treq, crashed,
                   sharedIds, clientVars, outerVars>>

\* a faulty variant of hub.go:176: the queue is looked up by user, not
\* taken from the connection the request arrived on
TargetByUser(t) ==
    CHOOSE c \in Conn : /\ rpc[c] \notin {"none", "rejected"}
                        /\ userID[c] = treq[t].UserId
                        /\ \A d \in Conn : (d < c /\ rpc[d] \notin {"none", "rejected"})
                                             => userID[d] # treq[t].UserId

\* hub.go:176: `c.send`, the queue of the connection the request arrived on
Target(t) == tconn[t]

\* hub.go:170-176: the response is marshalled (json.Marshal of a
\* *pb.ChatResponse has no failing input; a nil one gives `null`) and sent
\* on the queue with a blocking send.  A send on a closed channel panics (also for a sender
\* already blocked on it), and a panic in a goroutine ends the process.
TaskSend(t) ==
    /\ ~crashed
    /\ tpc[t] = "send"
    /\ LET c == Target(t)
           m == recvd[t][Len(recvd[t])] IN
       IF closeCount[c] > 0
       THEN /\ tpc' = [tpc EXCEPT ![t] = "panicked"]
            /\ crashed' = TRUE
            /\ UNCHANGED send
       ELSE /\ Len(send[c]) < SendCap
            /\ send' = [send EXCEPT ![c] = Append(@, m)]
            /\ tpc' = [tpc EXCEPT ![t] = "recv"]
            /\ UNCHANGED crashed
    /\ UNCHANGED <<connVars, clients, closeCount, dropped, bcast, written, tconn,
                   treq, recvd, sharedIds, clientVars, outerVars>>

\* ------------------------------------------------------ Client.writePump
RECURSIVE Reverse(_)
Reverse(s) == IF s = <<>> THEN <<>> ELSE Reverse(Tail(s)) \o <<Head(s)>>

\* a faulty variant of hub.go:200-206: the messages are written last-first
BatchReversed(q) == Reverse(q)

\* hub.go:200-206: the received message, then the len(c.send) queued ones,
\* each after a newline, in one text frame
Batch(q) == q

\* A message is received from the queue and the frame is written.
WriteBatch(c) ==
    /\ ~crashed
    /\ wpc[c] = "running"
    /\ rpc[c] # "closed"
    /\ send[c] # <<>>
    /\ written' = [written EXCEPT ![c] = Append(@, Batch(send[c]))]
    /\ send' = [send EXCEPT ![c] = <<>>]
    /\ UNCHANGED <<connVars, clients, closeCount, dropped, bcast, taskVars,
                   crashed, sharedIds, clientVars, outerVars>>

\* NextWriter fails (k = 1: only the received message is consumed) or
\* w.Close fails (the whole batch is consumed); the loop returns and the
\* deferred function closes the transport.
WriteError(c, k) ==
    /\ ~crashed
    /\ wpc[c] = "running"
    /\ send[c] # <<>>
    /\ k \in {1, Len(send[c])}
    /\ send' = [send EXCEPT ![c] = SubSeq(@, k + 1, Len(@))]
    /\ wpc' = [wpc EXCEPT ![c] = "exited"]
    /\ UNCHANGED <<rpc, userID, sessionID, wsToken, clients, closeCount, dropped, bcast,
                   written, taskVars, crashed, sharedIds, clientVars, outerVars>>

\* The ticker case, hub.go:212-216: the ping could not be written within
\* writeWait and the loop returns; the deferred function closes the
\* transport.  (A ping that is written changes nothing here.)
PingError(c) ==
    /\ ~crashed
    /\ wpc[c] = "running"
    /\ wpc' = [wpc EXCEPT ![c] = "exited"]
    /\ UNCHANGED <<rpc, userID, sessionID, wsToken, hubVars, written, taskVars, crashed,
                   sharedIds, clientVars, outerVars>>

\* The receive reports the queue closed and drained: a close message is
\* written and the loop returns.
WriteClose(c) ==
    /\ ~crashed
    /\ wpc[c] = "running"
    /\ send[c] = <<>>
    /\ closeCount[c] > 0
    /\ wpc' = [wpc EXCEPT ![c] = "exited"]
    /\ UNCHANGED <<rpc, userID, sessionID, wsToken, hubVars, written, taskVars, crashed,
                   sharedIds, clientVars, outerVars>>

\* --------------------------------------------------------- Flutter client
\* the content of a fragment: one token per chunk, "" on the final fragment
Content(m) == IF m.final THEN <<>> ELSE << <<m.task, m.seq>> >>

\* websocket_service.dart:37: jsonDecode of the whole text frame succeeds
\* only on a single JSON value, messages joined by newlines do not parse;
\* and the cast to Map only on an object: a marshalled nil response is the
\* text `null`, which decodes to null
JsonDecodes(frame) == Len(frame) = 1 /\ frame[1].chat

\* Message.fromJson: the generated decoder is not among the sources; it is
\* taken to read the id, the content and the final flag of a fragment
FromJson(m) == [id |-> m.id, task |-> m.task, content |-> Content(m), isFinal |-> m.final]

\* a handler that adds every message at the end of the list
HandleWebSocketMessageAppend(ms, msg) == Append(ms, msg)

\* chat_provider.dart:112-117: replace the message with the same id, or add
HandleWebSocketMessage(ms, msg) ==
    IF \E i \in 1..Len(ms) : ms[i].id = msg.id
    THEN LET i == CHOOSE j \in 1..Len(ms) :
                     ms[j].id = msg.id /\ \A k \in 1..(j - 1) : ms[k].id # msg.id
         IN [ms EXCEPT ![i] = msg]
    ELSE Append(ms, msg)

\* The stream listener of WebSocketService.connect on the next frame, and
\* ChatProvider._handleWebSocketMessage on what it decodes: the message is
\* stored and _isLoading assigned; _isStreaming is assigned nowhere.
ClientReceive(c) ==
    /\ clientPos[c] < Len(written[c])
    /\ LET frame == written[c][clientPos[c] + 1] IN
         /\ clientPos' = [clientPos EXCEPT ![c] = @ + 1]
         /\ clientMsgs' = [clientMsgs EXCEPT ![c] =
                IF JsonDecodes(frame)
                THEN HandleWebSocketMessage(@, FromJson(frame[1]))
                ELSE @]
         /\ isLoading' = [isLoading EXCEPT ![c] =
                IF JsonDecodes(frame) THEN ~FromJson(frame[1]).isFinal ELSE @]
         /\ UNCHANGED isStreaming
    /\ UNCHANGED <<connVars, hubVars, written, taskVars, crashed, sharedIds, outerVars>>

\* ------------------------------------------------------- Bridge.Cancel
\* Cancel(taskID) of the Streaming Bridge: the flag of a task that is not
\* terminal is raised.  The gateway has no such operation and passes
\* context.Background() to the stream (hub.go:157); the signal is taken
\* from the specification, and no step of handleMessage reads it.
Cancel(t) ==
    /\ ~crashed
    /\ tpc[t] \in {"open", "recv", "send"}
    /\ ~HasFinal(IF tpc[t] = "send" THEN Front(recvd[t]) ELSE recvd[t])
    /\ t \notin cancelled
    /\ cancelled' = cancelled \cup {t}
    /\ UNCHANGED <<connVars, hubVars, written, taskVars, crashed, sharedIds,
                   clientVars, restVars, orchVars, extVars>>

\* ------------------------------------------- api.Handler (REST handlers)
Methods == {"GET", "POST"}
Handlers == {"Chat", "StreamChat"}
\* the Authorization header: none, a token that does not verify, a valid JWT
AuthHeaders == {"none", "invalid", "valid"}
\* middleware.GetClaims on the request context: no claims, or those of a user
CtxClaims == {"none", "u1"}
\* the AI-service call: it succeeds, it returns an error, or (streams only)
\* the stream opens and Recv then fails
AiOutcomes(h) == IF h = "Chat" THEN {"ok", "fail"} ELSE {"ok", "fail", "broken"}

\* a faulty variant of Handler.Chat: the claims are looked up before the
\* method is tested
ChatClaimsFirst(method, claims, bodyOk, ai) ==
    IF claims = "none" THEN [status |-> 401, called |-> FALSE]
    ELSE IF method # "POST" THEN [status |-> 405, called |-> FALSE]
    ELSE IF ~bodyOk THEN [status |-> 400, called |-> FALSE]
    ELSE IF ai = "fail" THEN [status |-> 500, called |-> TRUE]
    ELSE [status |-> 200, called |-> TRUE]

\* no request reached the AI client
NoForward == [SessionId |-> "", UserId |-> ""]

\* Handler.Chat: the status it answers and whether ProcessChat was called
Chat(method, claims, bodyOk, ai) ==
    IF method # "POST" THEN [status |-> 405, called |-> FALSE]
    ELSE IF claims = "none" THEN [status |-> 401, called |-> FALSE]
    ELSE IF ~bodyOk THEN [status |-> 400, called |-> FALSE]
    ELSE IF ai = "fail" THEN [status |-> 500, called |-> TRUE]
    ELSE [status |-> 200, called |-> TRUE]

\* Handler.StreamChat: as Chat up to the call of ProcessStream; once the
\* stream is open the events are written under status 200, also when Recv
\* fails (the ResponseWriter of net/http is a Flusher)
StreamChat(method, claims, bodyOk, ai) ==
    IF method # "POST" THEN [status |-> 405, called |-> FALSE]
    ELSE IF claims = "none" THEN [status |-> 401, called |-> FALSE]
    ELSE IF ~bodyOk THEN [status |-> 400, called |-> FALSE]
    ELSE IF ai = "fail" THEN [status |-> 500, called |-> TRUE]
    ELSE [status |-> 200, called |-> TRUE]

Handle(h, method, claims, bodyOk, ai) ==
    IF h = "Chat" THEN Chat(method, claims, bodyOk, ai)
    ELSE StreamChat(method, claims, bodyOk, ai)

\* A handler is invoked on a request whose context holds the given claims
\* (handler_test.go: setupTestContextWithClaims, or no claims at all).
ServeHandler(h, method, claims, bodyOk, ai) ==
    /\ Len(httpLog) < MaxHttp
    /\ httpLog' = Append(httpLog,
          [via |-> "handler", handler |-> h, method |-> method, authz |-> "none",
           claims |-> claims, bodyOk |-> bodyOk, ai |-> ai,
           status |-> Handle(h, method, claims, bodyOk, ai).status,
           called |-> Handle(h, method, claims, bodyOk, ai).called])
    /\ UNCHANGED <<connVars, hubVars, written, taskVars, crashed, sharedIds,
                   clientVars, cancelled, forwarded, orchVars, extVars>>

\* main.go:39-43: the mux hands the request to the handler as it came in;
\* no middleware reads the Authorization header, so the request context
\* holds no claims
RouteClaims(authz) == "none"

\* A request served through the routes of the gateway.
ServeRoute(h, method, authz, bodyOk, ai) ==
    /\ Len(httpLog) < MaxHttp
    /\ httpLog' = Append(httpLog,
          [via |-> "route", handler |-> h, method |-> method, authz |-> authz,
           claims |-> RouteClaims(authz), bodyOk |-> bodyOk, ai |-> ai,
           status |-> Handle(h, method, RouteClaims(authz), bodyOk, ai).status,
           called |-> Handle(h, method, RouteClaims(authz), bodyOk, ai).called])
    /\ UNCHANGED <<connVars, hubVars, written, taskVars, crashed, sharedIds,
                   clientVars, cancelled, forwarded, orchVars, extVars>>

\* What a REST body may hold: bytes that do not decode, or a JSON object
\* with any user_id and session_id ("" is an absent key).
Bodies ==
    {[ok |-> FALSE, user_id |-> "", session_id |-> ""]}
    \cup {[ok |-> TRUE, user_id |-> u, session_id |-> s] :
             u \in {"", "u1", "u2"}, s \in {"", "s1"}}

\* json.NewDecoder(r.Body).Decode(&req) into main.ChatRequest
DecodeBody(body) == [SessionID |-> body.session_id, UserID |-> body.user_id]

\* a faulty variant of the stamping: the identity of the claims is used only
\* when the body names none
StampClaimsIfAbsent(req, claims) ==
    IF req.UserID = "" THEN [req EXCEPT !.UserID = claims] ELSE req

\* main.go:137 and main.go:176: req.UserID = claims.UserID
StampClaims(req, claims) == [req EXCEPT !.UserID = claims]

\* Handler.Chat builds the grpc.ChatRequest (main.go:139-145) and
\* PythonClient.ProcessChat copies it into the pb.ChatRequest
\* (client.go:42-47)
ChatForwarded(req) == [SessionId |-> req.SessionID, UserId |-> req.UserID]

\* Handler.StreamChat builds the pb.ChatRequest itself (main.go:182-187)
StreamChatForwarded(req) == [SessionId |-> req.SessionID, UserId |-> req.UserID]

Forwarded(h, claims, body) ==
    IF h = "Chat" THEN ChatForwarded(StampClaims(DecodeBody(body), claims))
    ELSE StreamChatForwarded(StampClaims(DecodeBody(body), claims))

\* A handler serves a request with the given body; `req` is what it hands
\* to the AI client, when it gets that far.
ForwardHandler(h, method, claims, body, ai) ==
    /\ Len(forwarded) < MaxForward
    /\ forwarded' = Append(forwarded,
          [via |-> "handler", handler |-> h, claims |-> claims, body |-> body,
           called |-> Handle(h, method, claims, body.ok, ai).called,
           req |-> IF Handle(h, method, claims, body.ok, ai).called
                   THEN Forwarded(h, claims, body) ELSE NoForward])
    /\ UNCHANGED <<connVars, hubVars, written, taskVars, crashed, sharedIds,
                   clientVars, cancelled, httpLog, orchVars, extVars>>

\* The same through the routes of the gateway.
ForwardRoute(h, method, authz, body, ai) ==
    /\ Len(forwarded) < MaxForward
    /\ forwarded' = Append(forwarded,
          [via |-> "route", handler |-> h, claims |-> RouteClaims(authz),
           body |-> body,
           called |-> Handle(h, method, RouteClaims(authz), body.ok, ai).called,
           req |-> IF Handle(h, method, RouteClaims(authz), body.ok, ai).called
                   THEN Forwarded(h, RouteClaims(authz), body) ELSE NoForward])
    /\ UNCHANGED <<connVars, hubVars, written, taskVars, crashed, sharedIds,
                   clientVars, cancelled, httpLog, orchVars, extVars>>

\* ------------------------------------ AIServiceServicer and Orchestrator
\* Orchestrator.__init__: the agents registered in self.agents
Agents == {"researcher", "writer", "code", "image"}

\* _is_research_query, _is_code_query, _is_image_query are not among the
\* sources; they are taken to recognise an open-ended question, a code-like
\* payload and an explicit image intent
IsResearchQuery(ct) == ct.openQuestion
IsCodeQuery(ct) == ct.codeLike
IsImageQuery(ct) == ct.imageIntent

\* a faulty variant of _determine_agents: the writer is appended only when
\* no image is asked for
DetermineAgentsImageLast(ct) ==
    <<"orchestrator">>
    \o (IF IsResearchQuery(ct) THEN <<"researcher">> ELSE <<>>)
    \o (IF IsCodeQuery(ct) THEN <<"code">> ELSE <<>>)
    \o (IF IsImageQuery(ct) THEN <<"image">> ELSE <<"writer">>)

\* Orchestrator._determine_agents
DetermineAgents(ct) ==
    <<"orchestrator">>
    \o (IF IsResearchQuery(ct) THEN <<"researcher">> ELSE <<>>)
    \o (IF IsCodeQuery(ct) THEN <<"code">> ELSE <<>>)
    \o (IF IsImageQuery(ct) THEN <<"image">> ELSE <<>>)
    \o <<"writer">>

\* the servicer goes back to waiting for a request
OrchReset ==
    /\ orchPc' = "idle"
    /\ content' = NoContent
    /\ required' = <<>>
    /\ agentIdx' = 0
    /\ invoked' = <<>>
    /\ emitted' = <<>>

\* AIServiceServicer.ProcessChat calls Orchestrator.process_chat, which
\* determines the required agents and enters the pipeline loop.
ServicerProcessChat(ct) ==
    /\ orchPc = "idle"
    /\ Len(served) < MaxRuns
    /\ orchPc' = "pipeline"
    /\ content' = ct
    /\ required' = DetermineAgents(ct)
    /\ agentIdx' = 1
    /\ UNCHANGED <<invoked, emitted, served>>
    /\ UNCHANGED <<connVars, hubVars, written, taskVars, crashed, sharedIds,
                   clientVars, cancelled, restVars, extVars>>

\* One iteration of `for agent_type in required_agents`: the agent is looked
\* up in self.agents (a KeyError for a type that is not registered) and
\* executed; execute returns, or raises.  After the last agent the response
\* is generated and returned.
ExecuteNext(outcome) ==
    /\ orchPc = "pipeline"
    /\ IF agentIdx > Len(required)
       THEN /\ outcome = "ok"
            /\ orchPc' = "returned"
            /\ UNCHANGED <<agentIdx, invoked>>
       ELSE IF required[agentIdx] \notin Agents
       THEN /\ outcome = "raise"
            /\ orchPc' = "raised"
            /\ UNCHANGED <<agentIdx, invoked>>
       ELSE /\ invoked' = Append(invoked, required[agentIdx])
            /\ IF outcome = "ok"
               THEN agentIdx' = agentIdx + 1 /\ UNCHANGED orchPc
               ELSE orchPc' = "raised" /\ UNCHANGED agentIdx
    /\ UNCHANGED <<content, required, emitted, served>>
    /\ UNCHANGED <<connVars, hubVars, written, taskVars, crashed, sharedIds,
                   clientVars, cancelled, restVars, extVars>>

\* AIServiceServicer.ProcessStream takes a request from the stream and
\* calls Orchestrator.stream_chat; no agent takes part.
ServicerProcessStream(ct) ==
    /\ orchPc = "idle"
    /\ Len(served) < MaxRuns
    /\ orchPc' = "streaming"
    /\ content' = ct
    /\ UNCHANGED <<required, agentIdx, invoked, emitted, served>>
    /\ UNCHANGED <<connVars, hubVars, written, taskVars, crashed, sharedIds,
                   clientVars, cancelled, restVars, extVars>>

\* stream_chat yields a chunk of the completion, or the final fragment
\* after the last chunk, or the completion raises.
StreamYield(kind) ==
    /\ orchPc = "streaming"
    /\ CASE kind = "chunk" ->
              /\ Len(emitted) < MaxChunks
              /\ emitted' = Append(emitted, [is_final |-> FALSE])
              /\ UNCHANGED orchPc
         [] kind = "final" ->
              /\ emitted' = Append(emitted, [is_final |-> TRUE])
              /\ orchPc' = "streamed"
         [] kind = "raise" ->
              /\ orchPc' = "raised"
              /\ UNCHANGED emitted
    /\ UNCHANGED <<content, required, agentIdx, invoked, served>>
    /\ UNCHANGED <<connVars, hubVars, written, taskVars, crashed, sharedIds,
                   clientVars, cancelled, restVars, extVars>>

\* What the caller gets: the response built from the result, the fragments
\* of the stream, or, when an exception left the orchestrator, the RPC
\* ended with status INTERNAL and no message (ProcessChat sets the code and
\* re-raises; ProcessStream does not catch).
ServicerReply ==
    /\ orchPc \in {"returned", "streamed", "raised"}
    /\ served' = Append(served,
          [rpc |-> IF required = <<>> THEN "ProcessStream" ELSE "ProcessChat",
           required |-> required,
           invoked |-> invoked,
           raised |-> (orchPc = "raised"),
           fragments |-> emitted,
           reply |-> IF orchPc = "raised"
                     THEN [kind |-> "rpc_error", status |-> "INTERNAL", is_final |-> FALSE]
                     ELSE [kind |-> "message", status |-> "completed", is_final |-> TRUE]])
    /\ OrchReset
    /\ UNCHANGED <<connVars, hubVars, written, taskVars, crashed, sharedIds,
                   clientVars, cancelled, restVars, extVars>>

\* -------------------------------------------------------- specifications
Next ==
    \/ \E c \in Conn, u \in UserIDs, s \in SessionIDs, tok \in FlutterTokens :
          HandleWebSocket(c, u, s, tok)
    \/ \E c \in Conn, f \in InFrames : ReadMessage(c, f)
    \/ \E c \in Conn : ReadError(c)
    \/ \E c \in Conn : HubUnregister(c)
    \/ \E t \in Task, ok \in BOOLEAN : ProcessStream(t, ok)
    \/ \E t \in Task, kind \in {"chunk", "final", "error"} : StreamRecv(t, kind)
    \/ \E t \in Task : TaskSend(t)
    \/ \E c \in Conn : WriteBatch(c)
    \/ \E c \in Conn, k \in 1..SendCap : WriteError(c, k)
    \/ \E c \in Conn : PingError(c)
    \/ \E c \in Conn : WriteClose(c)

\* the gateway as wired in cmd/gateway/main.go: nothing sends on hub.broadcast
Spec == Init /\ [][Next]_vars

\* the first request of the gateway
ReadFirstMessage(c, f) == tpc[1] = "unused" /\ ReadMessage(c, f)

NextBroadcast ==
    \/ \E c \in Conn, u \in UserIDs, s \in SessionIDs, tok \in FlutterTokens :
          HandleWebSocket(c, u, s, tok)
    \/ \E c \in Conn, f \in InFrames : ReadFirstMessage(c, f)
    \/ \E c \in Conn : ReadError(c)
    \/ \E c \in Conn : HubUnregister(c)
    \/ HubBroadcast(BroadcastMsg)
    \/ \E t \in Task, ok \in BOOLEAN : ProcessStream(t, ok)
    \/ \E t \in Task, kind \in {"chunk", "final", "error"} : StreamRecv(t, kind)
    \/ \E t \in Task : TaskSend(t)
    \/ \E c \in Conn : WriteBatch(c)
    \/ \E c \in Conn, k \in 1..SendCap : WriteError(c, k)
    \/ \E c \in Conn : PingError(c)
    \/ \E c \in Conn : WriteClose(c)

\* the hub with a sender on hub.broadcast, serving one request
SpecBroadcast == Init /\ [][NextBroadcast]_vars

NextRoundTrip ==
    \/ \E c \in Conn, u \in UserIDs, s \in SessionIDs, tok \in FlutterTokens :
          HandleWebSocket(c, u, s, tok)
    \/ \E c \in Conn, f \in InFrames : ReadFirstMessage(c, f)
    \/ \E c \in Conn : ReadError(c)
    \/ \E c \in Conn : HubUnregister(c)
    \/ \E t \in Task, ok \in BOOLEAN : ProcessStream(t, ok)
    \/ \E t \in Task, kind \in {"chunk", "final", "error"} : StreamRecv(t, kind)
    \/ \E t \in Task : TaskSend(t)
    \/ \E c \in Conn : WriteBatch(c)
    \/ \E c \in Conn, k \in 1..SendCap : WriteError(c, k)
    \/ \E c \in Conn : PingError(c)
    \/ \E c \in Conn : WriteClose(c)
    \/ \E c \in Conn : ClientReceive(c)

\* one request relayed to the Flutter client of its connection
SpecRoundTrip == InitRoundTrip /\ [][NextRoundTrip]_vars

NextCancel ==
    \/ \E c \in Conn, u \in UserIDs, s \in SessionIDs, tok \in FlutterTokens :
          HandleWebSocket(c, u, s, tok)
    \/ \E c \in Conn, f \in InFrames : ReadFirstMessage(c, f)
    \/ \E c \in Conn : ReadError(c)
    \/ \E c \in Conn : HubUnregister(c)
    \/ \E t \in Task, ok \in BOOLEAN : ProcessStream(t, ok)
    \/ \E t \in Task, kind \in {"chunk", "final", "error"} : StreamRecv(t, kind)
    \/ \E t \in Task : TaskSend(t)
    \/ \E t \in Task : Cancel(t)
    \/ \E c \in Conn : WriteBatch(c)
    \/ \E c \in Conn, k \in 1..SendCap : WriteError(c, k)
    \/ \E c \in Conn : PingError(c)
    \/ \E c \in Conn : WriteClose(c)

NextLive ==
    \/ \E c \in Conn, u \in UserIDs, s \in SessionIDs, tok \in FlutterTokens :
          HandleWebSocket(c, u, s, tok)
    \/ \E c \in Conn, f \in InFrames : ReadFirstMessage(c, f)
    \/ \E c \in Conn : ReadError(c)
    \/ \E c \in Conn : HubUnregister(c)
    \/ \E t \in Task, ok \in BOOLEAN : ProcessStream(t, ok)
    \/ \E t \in Task, kind \in {"chunk", "final", "error"} : StreamRecv(t, kind)
    \/ \E t \in Task : TaskSend(t)
    \/ \E c \in Conn : WriteBatch(c)
    \/ \E c \in Conn, k \in 1..SendCap : WriteError(c, k)
    \/ \E c \in Conn : PingError(c)
    \/ \E c \in Conn : WriteClose(c)

\* What the scheduling guarantees: a goroutine that can run does run (the
\* hub loop takes an offered unregister, a worker proceeds, the write loop
\* drains its queue), a backend that has not finished its response yields
\* the next fragment, and a read on a transport that the write loop has
\* closed fails.  Clients, the network and failures are under no obligation.
Fairness ==
    /\ \A c \in Conn : WF_vars(HubUnregister(c))
    /\ \A c \in Conn : WF_vars(WriteBatch(c))
    /\ \A c \in Conn : WF_vars(WriteClose(c))
    /\ \A c \in Conn : WF_vars(wpc[c] = "exited" /\ ReadError(c))
    /\ \A t \in Task : WF_vars(\E ok \in BOOLEAN : ProcessStream(t, ok))
    /\ \A t \in Task : WF_vars(StreamRecv(t, "chunk") \/ StreamRecv(t, "final"))
    /\ \A t \in Task : WF_vars(TaskSend(t))

\* the gateway serving one request, under fair scheduling
SpecLive == Init /\ [][NextLive]_vars /\ Fairness

\* one request whose task may be cancelled while it runs
SpecCancel == Init /\ [][NextCancel]_vars

NextRest ==
    \/ \E h \in Handlers, m \in Methods, cl \in CtxClaims, b \in BOOLEAN :
          \E ai \in AiOutcomes(h) : ServeHandler(h, m, cl, b, ai)
    \/ \E h \in Handlers, m \in Methods, a \in AuthHeaders, b \in BOOLEAN :
          \E ai \in AiOutcomes(h) : ServeRoute(h, m, a, b, ai)

\* the REST handlers, invoked directly and through the gateway's routes
SpecRest == Init /\ [][NextRest]_vars

NextOrchestrator ==
    \/ \E ct \in Contents : ServicerProcessChat(ct)
    \/ \E outcome \in {"ok", "raise"} : ExecuteNext(outcome)
    \/ \E ct \in Contents : ServicerProcessStream(ct)
    \/ \E kind \in {"chunk", "final", "raise"} : StreamYield(kind)
    \/ ServicerReply

\* the AI service handling its requests one after the other
SpecOrchestrator == Init /\ [][NextOrchestrator]_vars

\* ------------------------------------------------------------ properties
\* the responses of task t that handleMessage has put on the queue
Enqueued(t) == IF tpc[t] \in {"send", "panicked"} THEN Front(recvd[t]) ELSE recvd[t]

NumFinal(rs) == Cardinality({i \in 1..Len(rs) : rs[i].final})

Registered(c) == rpc[c] \notin {"none", "rejected"}

\* C1: for every task whose worker has returned, exactly one fragment with
\* isFinal = true was enqueued for the client, and it is the last fragment
\* enqueued for that task.
C1_ExactlyOneFinal ==
    \A t \in Task :
        tpc[t] = "done" =>
            /\ NumFinal(Enqueued(t)) = 1
            /\ Enqueued(t)[Len(Enqueued(t))].final

\* C2: a step that delivers a fragment of session S enqueues it on every
\* registered connection of S whose queue is not full, and removes from the
\* registry the connections of S whose queue is full.
C2_DeliverFansOut ==
    [][\A t \in Task :
          (tpc[t] = "send" /\ tpc'[t] = "recv") =>
              \A c \in clients :
                  sessionID[c] = treq[t].SessionId =>
                      IF Len(send[c]) < SendCap
                      THEN send'[c] = Append(send[c], recvd[t][Len(recvd[t])])
                      ELSE c \notin clients']_vars

\* C3: a worker holding a fragment for its connection is never blocked: the
\* enqueue step can always be taken, whatever the state of the queue.
C3_ProducerNeverBlocks ==
    \A t \in Task : (tpc[t] = "send" /\ ~crashed) => ENABLED TaskSend(t)

\* C4: every fragment on the queue of a connection, or written to it, was
\* produced for a request that arrived on a connection of the same session
\* and was forwarded with that session.
C4_SessionIsolation ==
    \A c \in Conn :
        \A i \in 1..Len(send[c] \o Flatten(written[c])) :
            LET m == (send[c] \o Flatten(written[c]))[i] IN
            m.task \in Task =>
                /\ sessionID[tconn[m.task]] = sessionID[c]
                /\ treq[m.task].SessionId = sessionID[c]

\* two connections of different sessions, one of which was sent fragments
C4_Witness ==
    \E c, d \in Conn :
        /\ Registered(c) /\ Registered(d)
        /\ sessionID[c] # sessionID[d]
        /\ written[c] # <<>>
        /\ \E t \in Task : tconn[t] = c /\ tpc[t] = "done"

\* C5: a read or write error of a connection never brings the gateway
\* down: the fragments its workers still produce are discarded.
C5_ErrorContained == crashed = FALSE

C7_SenderSurvivesUnregister ==
    [][\A t \in Task :
          (tpc[t] = "send" /\ closeCount[tconn[t]] > 0) => tpc'[t] # "panicked"]_vars

RECURSIVE ConcatContent(_)
ConcatContent(ms) ==
    IF ms = <<>> THEN <<>> ELSE Head(ms).content \o ConcatContent(Tail(ms))

RECURSIVE ConcatPayload(_)
ConcatPayload(rs) ==
    IF rs = <<>> THEN <<>> ELSE Content(Head(rs)) \o ConcatPayload(Tail(rs))

\* C9: once every fragment received for a task has been written to the
\* connection and the client has handled every frame, the content the
\* client holds for the task is the concatenation of the fragment payloads
\* in emission order.
C9_RoundTrip ==
    \A t \in Task :
        (/\ tpc[t] # "unused"
         /\ OfTask(Flatten(written[tconn[t]]), t) = recvd[t]
         /\ clientPos[tconn[t]] = Len(written[tconn[t]]))
        => ConcatContent(OfTask(clientMsgs[tconn[t]], t)) = ConcatPayload(recvd[t])

\* C10: every request handed to ProcessStream carries the userID and the
\* sessionID of the connection it arrived on, so any two requests of one
\* connection carry the same identity, whatever their frames said.
C10_IdentityStamped ==
    /\ \A t \in Task :
          tpc[t] # "unused" =>
              /\ treq[t].UserId = userID[tconn[t]]
              /\ treq[t].SessionId = sessionID[tconn[t]]
    /\ \A t, u \in Task :
          (tpc[t] # "unused" /\ tpc[u] # "unused" /\ tconn[t] = tconn[u])
              => treq[t] = treq[u]

\* two requests of one connection were forwarded to the backend, and no
\* inbound frame carries the user they were forwarded with
C10_Witness ==
    \E t, u \in Task :
        /\ t # u /\ tconn[t] = tconn[u]
        /\ tpc[t] = "done" /\ tpc[u] = "done"
        /\ recvd[t] # <<>> /\ recvd[u] # <<>>
        /\ \A f \in InFrames : f.user_id # treq[t].UserId

\* JWTAuth (internal/middleware, auth_test.go:13-67): a token verifies an
\* identity when it is a valid token issued to that user
Verified(u, tok) == u # "" /\ tok = u

\* C11: every connection that was created and registered comes from a
\* handshake whose identity was verified: it carried a valid token of the
\* user it was registered for.
C11_HandshakeVerified ==
    \A c \in Conn : Registered(c) => Verified(userID[c], wsToken[c])

\* the messages put on the way to the client of connection c
Outbound(c) == Flatten(written[c]) \o send[c]

\* C12: when the backend stream of a task has failed (it could not be
\* opened, or receiving failed before a final fragment) and the worker has
\* returned, a terminal message of that task is on its way to the client.
C12_FailureSignalled ==
    \A t \in Task :
        (tpc[t] = "done" /\ ~HasFinal(recvd[t])) =>
            \E i \in 1..Len(Outbound(tconn[t])) :
                /\ Outbound(tconn[t])[i].task = t
                /\ Outbound(tconn[t])[i].final

\* C13: once a cancellation signal was issued for a task, the worker puts
\* no further fragment of that task on the queue of its connection.
C13_NoFragmentAfterCancel ==
    [][\A t \in Task : t \in cancelled => Enqueued(t)' = Enqueued(t)]_vars

\* C14: a worker that has relayed the final fragment of its task eventually
\* ends (returns, or ends with the process) and thereby releases its stream.
C14_WorkerTerminates ==
    \A t \in Task :
        (tpc[t] = "recv" /\ HasFinal(recvd[t])) ~> (tpc[t] \in {"done", "panicked"} \/ crashed)

\* C15: a connection whose read loop has ended on a read error (the idle
\* deadline passed, or a frame exceeded the size limit) is eventually out
\* of the registry with its queue closed and its transport closed.
C15_ReadViolationCleansUp ==
    \A c \in Conn :
        (rpc[c] = "unregistering") ~>
            (rpc[c] = "closed" /\ c \notin clients /\ closeCount[c] > 0)

\* C16: a connection whose write loop has ended (a keepalive probe or a
\* frame could not be written) is eventually unregistered.
C16_WriteFailureUnregisters ==
    \A c \in Conn : (wpc[c] = "exited") ~> (rpc[c] = "closed" /\ c \notin clients)

\* C19: every request a handler has served was answered 405 when it was not
\* a POST (authenticated or not), 401 when it was a POST without claims,
\* 400 when it was an authenticated POST with an undecodable body, 500 when
\* the AI-service call returned an error; in the first three cases the AI
\* service was not called.
C19_HandlerStatus ==
    \A i \in 1..Len(httpLog) :
        LET r == httpLog[i] IN
        /\ r.method # "POST" => (r.status = 405 /\ ~r.called)
        /\ (r.method = "POST" /\ r.claims = "none") => (r.status = 401 /\ ~r.called)
        /\ (r.method = "POST" /\ r.claims # "none" /\ ~r.bodyOk)
              => (r.status = 400 /\ ~r.called)
        /\ (r.method = "POST" /\ r.claims # "none" /\ r.bodyOk /\ r.ai = "fail")
              => (r.status = 500 /\ r.called)

\* an authenticated GET and an authenticated POST whose AI-service call
\* failed have been served, one by each handler
C19_Witness ==
    \E i, j \in 1..Len(httpLog) :
        /\ httpLog[i].handler = "Chat" /\ httpLog[j].handler = "StreamChat"
        /\ httpLog[i].method = "GET" /\ httpLog[i].claims = "u1"
        /\ httpLog[j].method = "POST" /\ httpLog[j].claims = "u1"
        /\ httpLog[j].bodyOk /\ httpLog[j].ai = "fail"

\* C20: of the requests that came through the gateway's routes, every POST
\* to /api/v1/chat with a valid JWT and a valid body was forwarded to the AI
\* service and, when the service answered, answered 200; every one without
\* a valid token was answered 401.
C20_RoutedChatAuthenticated ==
    \A i \in 1..Len(httpLog) :
        LET r == httpLog[i] IN
        (r.via = "route" /\ r.handler = "Chat" /\ r.method = "POST") =>
            /\ (r.authz = "valid" /\ r.bodyOk) => r.called
            /\ (r.authz = "valid" /\ r.bodyOk /\ r.ai = "ok") => r.status = 200
            /\ r.authz # "valid" => r.status = 401

Range(f) == {f[i] : i \in DOMAIN f}

\* C17: every task with requiredAgents = [orchestrator, researcher, writer]
\* whose pipeline ended on an error was answered by one terminal message
\* with status failed, and the writer was not invoked.
C17_AgentFailureReported ==
    \A i \in 1..Len(served) :
        LET r == served[i] IN
        (/\ r.rpc = "ProcessChat"
         /\ r.required = <<"orchestrator", "researcher", "writer">>
         /\ r.raised)
        => /\ r.reply.kind = "message"
           /\ r.reply.status = "failed"
           /\ r.reply.is_final
           /\ "writer" \notin Range(r.invoked)

\* C18: the required agents of a dispatched task start with the
\* orchestrator role and end with the writer; in between are, in this order
\* and at most once each, the researcher, the code agent and the image agent,
\* each present exactly when the content calls for it; a content that is
\* code-like and nothing else yields [orchestrator, code, writer].
C18_DispatchOrder ==
    (orchPc \in {"pipeline", "raised", "returned"} /\ agentIdx > 0) =>
        LET n == Len(required)
            mid == SubSeq(required, 2, n - 1)
        IN /\ n >= 2
           /\ required[1] = "orchestrator"
           /\ required[n] = "writer"
           /\ Range(mid) \subseteq {"researcher", "code", "image"}
           /\ ("researcher" \in Range(mid)) = content.openQuestion
           /\ ("code" \in Range(mid)) = content.codeLike
           /\ ("image" \in Range(mid)) = content.imageIntent
           /\ \A j, k \in 1..Len(mid) :
                 j < k => <<mid[j], mid[k]>> \in
                     {<<"researcher", "code">>, <<"researcher", "image">>, <<"code", "image">>}
           /\ (content = [openQuestion |-> FALSE, codeLike |-> TRUE, imageIntent |-> FALSE])
                 => required = <<"orchestrator", "code", "writer">>

\* a code-like request has been dispatched
C18_Witness ==
    /\ orchPc = "pipeline"
    /\ content.codeLike /\ ~content.openQuestion /\ ~content.imageIntent
    /\ required = <<"orchestrator", "code", "writer">>

\* ------------------------------------------- message-type conversion
MaxConv == 3

\* message_type strings a request can carry: the four the gateway knows,
\* the empty string, a wrong-case one and an unknown one
MessageTypes == {"", "text", "image", "video", "code", "TEXT", "audio"}

\* PythonClient.ProcessChat builds pbReq without MessageType (the zero
\* value, MESSAGE_TYPE_UNSPECIFIED) and sets it in a switch entered for a
\* non-empty string only; the switch has no default.
ProcessChatMessageType(s) ==
    IF s # ""
    THEN CASE s = "text" -> "MESSAGE_TYPE_TEXT"
           [] s = "image" -> "MESSAGE_TYPE_IMAGE"
           [] s = "video" -> "MESSAGE_TYPE_VIDEO"
           [] s = "code" -> "MESSAGE_TYPE_CODE"
           [] OTHER -> "MESSAGE_TYPE_UNSPECIFIED"
    ELSE "MESSAGE_TYPE_UNSPECIFIED"

\* the streaming path with "code" left out of its switch
StreamChatMessageTypeNoCode(s) ==
    IF s # ""
    THEN CASE s = "text" -> "MESSAGE_TYPE_TEXT"
           [] s = "image" -> "MESSAGE_TYPE_IMAGE"
           [] s = "video" -> "MESSAGE_TYPE_VIDEO"
           [] OTHER -> "MESSAGE_TYPE_UNSPECIFIED"
    ELSE "MESSAGE_TYPE_UNSPECIFIED"

\* Handler.StreamChat repeats the switch on its own request struct.
StreamChatMessageType(s) ==
    IF s # ""
    THEN CASE s = "text" -> "MESSAGE_TYPE_TEXT"
           [] s = "image" -> "MESSAGE_TYPE_IMAGE"
           [] s = "video" -> "MESSAGE_TYPE_VIDEO"
           [] s = "code" -> "MESSAGE_TYPE_CODE"
           [] OTHER -> "MESSAGE_TYPE_UNSPECIFIED"
    ELSE "MESSAGE_TYPE_UNSPECIFIED"

\* One request on the one-shot path: the pb request PythonClient.ProcessChat
\* sends carries the converted type.
ProcessChatConvert(s) ==
    /\ Len(converted) < MaxConv
    /\ converted' = Append(converted,
           [path |-> "ProcessChat", msgType |-> s,
            pb |-> ProcessChatMessageType(s)])
    /\ UNCHANGED <<coreVars, wsVars, authVars, chatVars>>

\* One request on the streaming path: the pb request Handler.StreamChat
\* sends on the stream carries the converted type.
StreamChatConvert(s) ==
    /\ Len(converted) < MaxConv
    /\ converted' = Append(converted,
           [path |-> "StreamChat", msgType |-> s,
            pb |-> StreamChatMessageType(s)])
    /\ UNCHANGED <<coreVars, wsVars, authVars, chatVars>>

NextConvert ==
    \/ \E s \in MessageTypes : ProcessChatConvert(s)
    \/ \E s \in MessageTypes : StreamChatConvert(s)

SpecConvert == Init /\ [][NextConvert]_vars

LastFrame(c) == written[c][clientPos[c]]

\* C22: once the client has handled a fragment, ChatProvider.isStreaming
\* tells whether the response is still under way: true after a fragment
\* with is_final = false, false after one with is_final = true.
C22_StreamingFollowsFinal ==
    \A c \in Conn :
        (clientPos[c] > 0 /\ JsonDecodes(LastFrame(c)))
            => isStreaming[c] = ~FromJson(LastFrame(c)[1]).isFinal

MaxOps == 4
MaxPings == 2

\* _connectionController.add(v): a StreamController that has been closed
\* throws a StateError on add; op is the operation or callback making the call
ConnectionAdd(v, op) ==
    IF wsClosed
    THEN wsThrew' = wsThrew \cup {op} /\ UNCHANGED wsEvents
    ELSE wsEvents' = Append(wsEvents, v) /\ UNCHANGED wsThrew

\* WebSocketService.connect: a new channel replaces _channel and is
\* listened to, _isConnected is set, true is added to the connection stream
\* and the ping timer started.  When the add throws, the catch block clears
\* _isConnected and its own add(false) throws out of connect.  A channel
\* that was still open is abandoned with its listeners attached.
WsConnect ==
    /\ wsOps < MaxOps
    /\ wsOps' = wsOps + 1
    /\ wsChannel' = "open"
    /\ wsStale' = (wsStale \/ wsChannel = "open")
    /\ wsIsConnected' = ~wsClosed
    /\ wsPingTimer' = IF wsClosed THEN wsPingTimer ELSE TRUE
    /\ ConnectionAdd(TRUE, "connect")
    /\ UNCHANGED <<wsClosed, wsPings>>
    /\ UNCHANGED <<coreVars, convVars, authVars, chatVars>>

\* the onError callback of the channel's stream
WsStreamError ==
    /\ wsChannel = "open"
    /\ wsOps < MaxOps
    /\ wsOps' = wsOps + 1
    /\ wsIsConnected' = FALSE
    /\ ConnectionAdd(FALSE, "onError")
    /\ UNCHANGED <<wsChannel, wsPingTimer, wsStale, wsClosed, wsPings>>
    /\ UNCHANGED <<coreVars, convVars, authVars, chatVars>>

\* the onDone callback of the channel's stream: the timer is cancelled
\* after the add, so not when the add throws
WsStreamDone ==
    /\ wsChannel = "open"
    /\ wsChannel' = "done"
    /\ wsIsConnected' = FALSE
    /\ ConnectionAdd(FALSE, "onDone")
    /\ wsPingTimer' = IF wsClosed THEN wsPingTimer ELSE FALSE
    /\ UNCHANGED <<wsStale, wsClosed, wsPings, wsOps>>
    /\ UNCHANGED <<coreVars, convVars, authVars, chatVars>>

\* the same onDone callback, run for a channel that disconnect() closed or
\* connect() replaced: it acts on the service's current fields
WsStaleDone ==
    /\ wsStale
    /\ wsStale' = FALSE
    /\ wsIsConnected' = FALSE
    /\ ConnectionAdd(FALSE, "onDone")
    /\ wsPingTimer' = IF wsClosed THEN wsPingTimer ELSE FALSE
    /\ UNCHANGED <<wsChannel, wsClosed, wsPings, wsOps>>
    /\ UNCHANGED <<coreVars, convVars, authVars, chatVars>>

\* the periodic timer's callback (every 30 s): a ping frame is sent while
\* the service holds a channel and _isConnected is set
WsPingTick ==
    /\ wsPingTimer
    /\ wsIsConnected /\ wsChannel # "null"
    /\ wsPings < MaxPings
    /\ wsPings' = wsPings + 1
    /\ UNCHANGED <<wsChannel, wsIsConnected, wsPingTimer, wsStale, wsClosed,
                   wsEvents, wsThrew, wsOps>>
    /\ UNCHANGED <<coreVars, convVars, authVars, chatVars>>

\* WebSocketService.disconnect
WsDisconnect ==
    /\ wsOps < MaxOps
    /\ wsOps' = wsOps + 1
    /\ wsPingTimer' = FALSE
    /\ wsStale' = (wsStale \/ wsChannel = "open")
    /\ wsChannel' = "null"
    /\ wsIsConnected' = FALSE
    /\ ConnectionAdd(FALSE, "disconnect")
    /\ UNCHANGED <<wsClosed, wsPings>>
    /\ UNCHANGED <<coreVars, convVars, authVars, chatVars>>

\* ChatProvider.dispose: WebSocketService.dispose runs disconnect() and
\* then closes both controllers; a throw in disconnect() ends the call
\* before the closes and before super.dispose()
ChatProviderDispose ==
    /\ wsOps < MaxOps
    /\ wsOps' = wsOps + 1
    /\ wsPingTimer' = FALSE
    /\ wsStale' = (wsStale \/ wsChannel = "open")
    /\ wsChannel' = "null"
    /\ wsIsConnected' = FALSE
    /\ ConnectionAdd(FALSE, "dispose")
    /\ wsClosed' = TRUE
    /\ UNCHANGED wsPings
    /\ UNCHANGED <<coreVars, convVars, authVars, chatVars>>

NextWebSocketService ==
    \/ WsConnect
    \/ WsStreamError
    \/ WsStreamDone
    \/ WsStaleDone
    \/ WsPingTick
    \/ WsDisconnect
    \/ ChatProviderDispose

\* Timers and stream callbacks that are due do run; the application is
\* under no obligation to call connect, disconnect or dispose.
FairnessWebSocketService ==
    /\ WF_vars(WsPingTick)
    /\ WF_vars(WsStaleDone)

SpecWebSocketService ==
    Init /\ [][NextWebSocketService]_vars /\ FairnessWebSocketService

\* C24: disposing the ChatProvider never throws, however often it is done,
\* and once it was disposed the WebSocket service is disconnected and its
\* stream controllers are closed.
C24_DisposeIdempotent ==
    /\ "dispose" \notin wsThrew
    /\ wsClosed => ~wsIsConnected

\* C27: a connection that was lost (the stream reported an error or ended)
\* without disconnect() being called is connected again by the service;
\* stated for a service that is still within the modelled number of
\* operations, so that a connect is possible when the connection is lost.
C27_Reconnects ==
    (/\ wsChannel = "done" \/ (wsChannel = "open" /\ ~wsIsConnected)
     /\ ~wsClosed
     /\ wsOps < MaxOps)
        ~> (wsIsConnected \/ wsChannel = "null" \/ wsClosed)

\* ------------------------------------------- the Flutter client's AuthProvider
MaxLogins == 2
MaxLogouts == 1

\* The provider is constructed on a device with or without credentials.
InitAuth ==
    InitGateway /\ sharedIds = TRUE /\ storage \in {NoCredentials, StoredCredentials}

\* _checkAuth, started by the constructor: the first two reads return
CheckAuthReadToken ==
    /\ checkPc = "readToken"
    /\ checkRead' = [checkRead EXCEPT !.token = storage.token]
    /\ checkPc' = "readUserId"
    /\ UNCHANGED <<authToken, authUser, authLoading, authError, apiToken,
                   storage, loginPc, loginResult, logins, logoutPc, logouts>>
    /\ UNCHANGED <<coreVars, convVars, wsVars, chatVars>>

CheckAuthReadUserId ==
    /\ checkPc = "readUserId"
    /\ checkRead' = [checkRead EXCEPT !.userId = storage.userId]
    /\ checkPc' = "readEmail"
    /\ UNCHANGED <<authToken, authUser, authLoading, authError, apiToken,
                   storage, loginPc, loginResult, logins, logoutPc, logouts>>
    /\ UNCHANGED <<coreVars, convVars, wsVars, chatVars>>

\* _checkAuth after its third read: what was read is installed when both
\* the token and the user id were found, and _isLoading is cleared
CheckAuthFinish ==
    /\ checkPc = "readEmail"
    /\ checkPc' = "done"
    /\ IF checkRead.token # "null" /\ checkRead.userId # "null"
       THEN /\ authToken' = checkRead.token
            /\ authUser' = checkRead.userId
            /\ apiToken' = checkRead.token
       ELSE UNCHANGED <<authToken, authUser, apiToken>>
    /\ authLoading' = FALSE
    /\ UNCHANGED <<authError, storage, checkRead, loginPc, loginResult,
                   logins, logoutPc, logouts>>
    /\ UNCHANGED <<coreVars, convVars, wsVars, chatVars>>

\* login up to its call of ApiService.login
LoginStart ==
    /\ loginPc = "idle"
    /\ logins < MaxLogins
    /\ logins' = logins + 1
    /\ loginPc' = "api"
    /\ authLoading' = TRUE
    /\ authError' = FALSE
    /\ UNCHANGED <<authToken, authUser, apiToken, storage, checkPc, checkRead,
                   loginResult, logoutPc, logouts>>
    /\ UNCHANGED <<coreVars, convVars, wsVars, chatVars>>

\* ApiService.login returns (ok) or throws: the result is installed and
\* the first write issued, or the catch block records the error
LoginApi(ok) ==
    /\ loginPc = "api"
    /\ IF ok
       THEN /\ authToken' = "new"
            /\ authUser' = "new"
            /\ loginPc' = "writeToken"
            /\ UNCHANGED <<authError, authLoading, loginResult>>
       ELSE /\ authError' = TRUE
            /\ authLoading' = FALSE
            /\ loginPc' = "idle"
            /\ loginResult' = "failed"
            /\ UNCHANGED <<authToken, authUser>>
    /\ UNCHANGED <<apiToken, storage, checkPc, checkRead, logins, logoutPc, logouts>>
    /\ UNCHANGED <<coreVars, convVars, wsVars, chatVars>>

\* the three writes of login return one after the other; after the last,
\* the token the provider holds by then is given to the ApiService
LoginWrite ==
    /\ loginPc \in {"writeToken", "writeUserId", "writeEmail"}
    /\ CASE loginPc = "writeToken" ->
              /\ storage' = [storage EXCEPT !.token = "new"]
              /\ loginPc' = "writeUserId"
              /\ UNCHANGED <<apiToken, authLoading, loginResult>>
         [] loginPc = "writeUserId" ->
              /\ storage' = [storage EXCEPT !.userId = "new"]
              /\ loginPc' = "writeEmail"
              /\ UNCHANGED <<apiToken, authLoading, loginResult>>
         [] loginPc = "writeEmail" ->
              /\ storage' = [storage EXCEPT !.email = "new"]
              /\ loginPc' = "idle"
              /\ apiToken' = authToken
              /\ authLoading' = FALSE
              /\ loginResult' = "ok"
    /\ UNCHANGED <<authToken, authUser, authError, checkPc, checkRead,
                   logins, logoutPc, logouts>>
    /\ UNCHANGED <<coreVars, convVars, wsVars, chatVars>>

\* logout up to its first delete
LogoutStart ==
    /\ logoutPc = "idle"
    /\ logouts < MaxLogouts
    /\ authToken' = "null"
    /\ authUser' = "null"
    /\ apiToken' = "null"
    /\ logoutPc' = "delToken"
    /\ UNCHANGED <<authLoading, authError, storage, checkPc, checkRead,
                   loginPc, loginResult, logins, logouts>>
    /\ UNCHANGED <<coreVars, convVars, wsVars, chatVars>>

\* the three deletes of logout return one after the other; after the last,
\* logout notifies and completes
LogoutDelete ==
    /\ logoutPc \in {"delToken", "delUserId", "delEmail"}
    /\ CASE logoutPc = "delToken" ->
              /\ storage' = [storage EXCEPT !.token = "null"]
              /\ logoutPc' = "delUserId"
              /\ UNCHANGED logouts
         [] logoutPc = "delUserId" ->
              /\ storage' = [storage EXCEPT !.userId = "null"]
              /\ logoutPc' = "delEmail"
              /\ UNCHANGED logouts
         [] logoutPc = "delEmail" ->
              /\ storage' = [storage EXCEPT !.email = "null"]
              /\ logoutPc' = "idle"
              /\ logouts' = logouts + 1
    /\ UNCHANGED <<authToken, authUser, authLoading, authError, apiToken,
                   checkPc, checkRead, loginPc, loginResult, logins>>
    /\ UNCHANGED <<coreVars, convVars, wsVars, chatVars>>

NextAuth ==
    \/ CheckAuthReadToken
    \/ CheckAuthReadUserId
    \/ CheckAuthFinish
    \/ LoginStart
    \/ \E ok \in BOOLEAN : LoginApi(ok)
    \/ LoginWrite
    \/ LogoutStart
    \/ LogoutDelete

\* the AuthProvider from its construction on
SpecAuth == InitAuth /\ [][NextAuth]_vars

\* AuthProvider.isAuthenticated
IsAuthenticated == authToken # "null" /\ authUser # "null"

\* C25: when a login attempt fails (ApiService.login throws), the provider
\* is left with isLoading = false, an error, no user and no token, and so
\* not authenticated.
C25_FailedLoginUnauthenticated ==
    [][(loginPc = "api" /\ loginPc' = "idle")
         => /\ ~authLoading'
            /\ authError'
            /\ authToken' = "null" /\ authUser' = "null"
            /\ ~IsAuthenticated']_vars

\* C26: when logout completes, the provider holds no user and no token and
\* is not authenticated, whatever _checkAuth or a login did meanwhile.
C26_LogoutClears ==
    [][(logoutPc = "delEmail" /\ logoutPc' = "idle")
         => /\ authToken' = "null" /\ authUser' = "null"
            /\ ~IsAuthenticated']_vars

\* ------------------------------------------------- the orchestrator role
\* C28: no agent is invoked for the orchestrator role that heads the
\* required agents, and the pipeline never fails at that entry.
C28_OrchestratorRoleSkipped ==
    /\ "orchestrator" \notin Range(invoked)
    /\ (orchPc = "raised" /\ agentIdx \in 1..Len(required))
           => required[agentIdx] # "orchestrator"

\* ------------------------------------------ frames and responses of any kind
NextFrames ==
    \/ \E c \in Conn, u \in UserIDs, s \in SessionIDs, tok \in FlutterTokens :
          HandleWebSocket(c, u, s, tok)
    \/ \E c \in Conn, f \in ClientFrames : ReadFirstMessage(c, f)
    \/ \E c \in Conn : ReadError(c)
    \/ \E c \in Conn : HubUnregister(c)
    \/ \E t \in Task, ok \in BOOLEAN : ProcessStream(t, ok)
    \/ \E t \in Task, kind \in {"chunk", "final", "heartbeat", "error"} :
          StreamRecv(t, kind)
    \/ \E t \in Task : TaskSend(t)
    \/ \E c \in Conn : WriteBatch(c)
    \/ \E c \in Conn, k \in 1..SendCap : WriteError(c, k)
    \/ \E c \in Conn : PingError(c)
    \/ \E c \in Conn : WriteClose(c)
    \/ \E c \in Conn : ClientReceive(c)

\* one request of a client that also sends pings, served by a backend that
\* also sends heartbeats
SpecFrames == Init /\ [][NextFrames]_vars

\* C29: no stream to the AI service is opened for a frame that has no chat
\* content, such as the client's ping: every request a worker was started
\* for carries a content.
C29_OnlyChatOpensStream ==
    \A t \in Task : tpc[t] # "unused" => treq[t].Content # ""

\* C30: a response without a chat payload puts no frame on the client's
\* queue, and no entry of the client's message list comes from one: every
\* response enqueued is a chat fragment, and every message of the list is
\* the decoding of a chat fragment written to its connection.
C30_HeartbeatIgnored ==
    /\ \A t \in Task : \A i \in 1..Len(Enqueued(t)) : Enqueued(t)[i].chat
    /\ \A c \in Conn : \A i \in 1..Len(clientMsgs[c]) :
         \E k \in 1..Len(written[c]) : \E j \in 1..Len(written[c][k]) :
            /\ written[c][k][j].chat
            /\ FromJson(written[c][k][j]) = clientMsgs[c][i]

\* ----------------------------------------------- the read loop and its frames
NextTransport ==
    \/ \E c \in Conn, u \in UserIDs, s \in SessionIDs, tok \in FlutterTokens :
          HandleWebSocket(c, u, s, tok)
    \/ \E c \in Conn, f \in InFrames : ReadMessage(c, f)
    \/ \E c \in Conn, f \in InFrames : ReadUnparsed(c, f)
    \/ \E c \in Conn : ReadError(c)
    \/ \E c \in Conn : HubUnregister(c)
    \/ \E t \in Task, ok \in BOOLEAN : ProcessStream(t, ok)
    \/ \E t \in Task, kind \in {"chunk", "final", "error"} : StreamRecv(t, kind)
    \/ \E t \in Task : TaskSend(t)
    \/ \E c \in Conn : WriteBatch(c)
    \/ \E c \in Conn : WriteClose(c)

\* the gateway with clients that also send frames that do not parse
SpecTransport == Init /\ [][NextTransport]_vars

\* C31: a frame that cannot be parsed stays local to its connection: at
\* the step that skips it no request is forwarded and no worker changes,
\* the registry and the queues are as before, and the read loop of the
\* connection is reading again.
C31_UnparsedFrameLocal ==
    [][\A c \in Conn :
         unparsed'[c] # unparsed[c]
           => /\ UNCHANGED <<tpc, tconn, treq, recvd>>
              /\ UNCHANGED <<clients, send, closeCount, crashed>>
              /\ c \in clients => c \in clients'
              /\ rpc'[c] = "reading"]_vars

\* a registered connection that skipped a frame, is reading, and has had a
\* request forwarded
C31_Witness ==
    \E c \in Conn :
        /\ unparsed[c] > 0
        /\ c \in clients /\ rpc[c] = "reading"
        /\ \E t \in Task : tconn[t] = c /\ tpc[t] # "unused"

\* C32: a read loop that is in its loop on an open transport can take the
\* next frame in every state of the workers and of the queues: a parsed
\* one while the model has a worker left to start, an unparseable one while
\* it has one left to count.
C32_ReadLoopNeverWaits ==
    \A c \in Conn :
        (rpc[c] = "reading" /\ wpc[c] # "exited" /\ ~crashed)
          => /\ FreeTask # {} => ENABLED (\E f \in InFrames : ReadMessage(c, f))
             /\ unparsed[c] < MaxUnparsed
                  => ENABLED (\E f \in InFrames : ReadUnparsed(c, f))

\* a worker blocked on the full queue of its connection, another still
\* receiving, and the connection's read loop reading
C32_Witness ==
    \E c \in Conn : \E t \in Task :
        /\ tconn[t] = c /\ tpc[t] = "send"
        /\ Len(send[c]) = SendCap /\ closeCount[c] = 0
        /\ rpc[c] = "reading" /\ wpc[c] # "exited" /\ ~crashed
        /\ unparsed[c] < MaxUnparsed

\* ------------------------------------------------------------- shutdown
NextShutdown ==
    \/ \E c \in Conn, u \in UserIDs, s \in SessionIDs, tok \in FlutterTokens :
          HandleWebSocket(c, u, s, tok)
    \/ \E c \in Conn, f \in InFrames : ReadFirstMessage(c, f)
    \/ \E c \in Conn : ReadError(c)
    \/ \E c \in Conn : HubUnregister(c)
    \/ HubStop
    \/ \E t \in Task, ok \in BOOLEAN : ProcessStream(t, ok)
    \/ \E t \in Task, kind \in {"chunk", "final", "error"} : StreamRecv(t, kind)
    \/ \E t \in Task : TaskSend(t)
    \/ \E c \in Conn : WriteBatch(c)
    \/ \E c \in Conn, k \in 1..SendCap : WriteError(c, k)
    \/ \E c \in Conn : PingError(c)
    \/ \E c \in Conn : WriteClose(c)

\* the gateway serving one request, under fair scheduling, with a hub whose
\* Run loop may return
SpecShutdown == Init /\ [][NextShutdown]_vars /\ Fairness

\* C33: unless the process has ended, a read loop that has left its loop
\* gets past its deferred unregister, closes the transport and returns,
\* and a handshake handler that has built its Client gets past the
\* registration and returns; also when Run has returned.
C33_LoopsReturn ==
    \A c \in Conn :
        /\ (rpc[c] = "unregistering") ~> (rpc[c] = "closed" \/ crashed)
        /\ (rpc[c] = "registering") ~> (rpc[c] # "registering" \/ crashed)

\* ----------------------------------------------- identity on REST paths
NextForward ==
    \/ \E h \in Handlers, m \in Methods, cl \in CtxClaims, b \in Bodies :
          \E ai \in AiOutcomes(h) : ForwardHandler(h, m, cl, b, ai)
    \/ \E h \in Handlers, m \in Methods, a \in AuthHeaders, b \in Bodies :
          \E ai \in AiOutcomes(h) : ForwardRoute(h, m, a, b, ai)

\* the REST handlers serving requests with arbitrary bodies
SpecForward == Init /\ [][NextForward]_vars

\* C34: whenever Chat or StreamChat hands a request to the AI client, its
\* user identity is the one of the verified claims, whatever user_id the
\* body holds, and its session_id is the one of the body.
C34_IdentityFromClaims ==
    \A i \in 1..Len(forwarded) :
        LET r == forwarded[i] IN
        r.called =>
            /\ r.req.UserId = r.claims
            /\ r.req.SessionId = r.body.session_id

\* each handler has forwarded a request whose body names another user
C34_Witness ==
    \E i, j \in 1..Len(forwarded) :
        /\ forwarded[i].handler = "Chat" /\ forwarded[j].handler = "StreamChat"
        /\ forwarded[i].called /\ forwarded[j].called
        /\ forwarded[i].body.user_id = "u2" /\ forwarded[i].claims = "u1"
        /\ forwarded[j].body.user_id = "u2" /\ forwarded[j].claims = "u1"
        /\ forwarded[j].body.session_id = "s1"

\* ------------------------------------------- ChatProvider and its sessions
\* WebSocketService.connect for session n: a new channel replaces _channel
\* (the one it held is neither closed nor are its listeners cancelled), the
\* listeners are attached and _isConnected is set.
Connect(n) ==
    /\ channel' = n
    /\ channelState' = [channelState EXCEPT ![n] = "open"]
    /\ isConnected' = TRUE

\* ChatProvider.createSession: the new session becomes the current one, the
\* list is cleared and a channel is opened for it.
CreateSession ==
    /\ sessions < MaxSessions
    /\ sessions' = sessions + 1
    /\ currentSession' = sessions + 1
    /\ chatMessages' = <<>>
    /\ Connect(sessions + 1)
    /\ UNCHANGED <<chatLoading, chatError, answering, fragments, sends>>
    /\ UNCHANGED <<coreVars, convVars, wsVars, authVars>>

\* websocket_service.dart:79: the frame is written only on a channel that is
\* held and believed connected; otherwise the call returns without a word
CanSend == channel # 0 /\ isConnected

\* ChatProvider.sendMessage with a current session: the user's message is
\* added, _isLoading set and _error cleared, and the frame handed to
\* WebSocketService.sendMessage, which never throws.
SendMessage ==
    /\ sends < MaxSends
    /\ currentSession # 0
    /\ sends' = sends + 1
    /\ chatMessages' = Append(chatMessages,
          [id |-> 100 + sends, role |-> "user", session |-> currentSession,
           isFinal |-> FALSE])
    /\ chatLoading' = TRUE
    /\ chatError' = "null"
    /\ answering' = IF CanSend /\ channelState[channel] = "open"
                    THEN [answering EXCEPT ![channel] = @ + 1]
                    ELSE answering
    /\ UNCHANGED <<currentSession, sessions, channel, isConnected,
                   channelState, fragments>>
    /\ UNCHANGED <<coreVars, convVars, wsVars, authVars>>

\* ChatProvider.sendMessage without a session: createSession runs first.
SendFirstMessage ==
    /\ sends < MaxSends
    /\ currentSession = 0
    /\ sessions < MaxSessions
    /\ sends' = sends + 1
    /\ sessions' = sessions + 1
    /\ currentSession' = sessions + 1
    /\ Connect(sessions + 1)
    /\ chatMessages' = <<[id |-> 100 + sends, role |-> "user",
                          session |-> sessions + 1, isFinal |-> FALSE]>>
    /\ chatLoading' = TRUE
    /\ chatError' = "null"
    /\ answering' = [answering EXCEPT ![sessions + 1] = @ + 1]
    /\ UNCHANGED fragments
    /\ UNCHANGED <<coreVars, convVars, wsVars, authVars>>

\* A fragment of the gateway's answer arrives on channel k: the listener of
\* that channel adds it to the message stream and
\* ChatProvider._handleWebSocketMessage stores it and assigns _isLoading.
ReceiveFragment(k, final) ==
    /\ channelState[k] = "open"
    /\ answering[k] > 0
    /\ final \/ fragments[k] < MaxFragments
    /\ fragments' = [fragments EXCEPT ![k] = @ + 1]
    /\ answering' = [answering EXCEPT ![k] = IF final THEN @ - 1 ELSE @]
    /\ chatMessages' = HandleWebSocketMessage(chatMessages,
          [id |-> 10 * k + fragments[k], role |-> "ai", session |-> k,
           isFinal |-> final])
    /\ chatLoading' = ~final
    /\ UNCHANGED <<currentSession, sessions, chatError, channel, isConnected,
                   channelState, sends>>
    /\ UNCHANGED <<coreVars, convVars, wsVars, authVars>>

\* Channel k ends (the connection is lost or the gateway closes it): its
\* onDone listener clears _isConnected; what the gateway was answering on
\* it is never delivered.
ConnectionDone(k) ==
    /\ channelState[k] = "open"
    /\ channelState' = [channelState EXCEPT ![k] = "done"]
    /\ isConnected' = FALSE
    /\ answering' = [answering EXCEPT ![k] = 0]
    /\ UNCHANGED <<currentSession, sessions, chatMessages, chatLoading,
                   chatError, channel, fragments, sends>>
    /\ UNCHANGED <<coreVars, convVars, wsVars, authVars>>

NextChat ==
    \/ CreateSession
    \/ SendMessage
    \/ SendFirstMessage
    \/ \E k \in ChatSessions, final \in BOOLEAN : ReceiveFragment(k, final)
    \/ \E k \in ChatSessions : ConnectionDone(k)

\* the gateway finishes every answer it has begun on an open channel
FairnessChat ==
    \A k \in ChatSessions : WF_vars(ReceiveFragment(k, TRUE))

\* one ChatProvider, the channels it opens and the gateway answering on them
SpecChat == Init /\ [][NextChat]_vars /\ FairnessChat

\* C35: every AI message in the list belongs to the current session.
C35_MessagesOfCurrentSession ==
    \A i \in 1..Len(chatMessages) :
        chatMessages[i].role = "ai" => chatMessages[i].session = currentSession

\* C36: whenever _isLoading is set it is cleared again (stated for a
\* provider that has created one session at most and may still send).
C36_LoadingEnds ==
    (chatLoading /\ sessions < MaxSessions /\ sends < MaxSends) ~> ~chatLoading

\* ------------------------------------------------------- the registry
NextRegistry ==
    \/ \E c \in Conn, u \in UserIDs, s \in SessionIDs, tok \in FlutterTokens :
          HandleWebSocket(c, u, s, tok)
    \/ \E c \in Conn, f \in InFrames : ReadFirstMessage(c, f)
    \/ \E c \in Conn : ReadError(c)
    \/ \E c \in Conn : HubUnregister(c)
    \/ HubBroadcast(BroadcastMsg)
    \/ HubStop
    \/ \E t \in Task, ok \in BOOLEAN : ProcessStream(t, ok)
    \/ \E t \in Task, kind \in {"chunk", "final", "error"} : StreamRecv(t, kind)
    \/ \E t \in Task : TaskSend(t)
    \/ \E c \in Conn : WriteBatch(c)
    \/ \E c \in Conn, k \in 1..SendCap : WriteError(c, k)
    \/ \E c \in Conn : PingError(c)
    \/ \E c \in Conn : WriteClose(c)

\* the hub with a sender on hub.broadcast and a Run loop that may return
SpecRegistry == Init /\ [][NextRegistry]_vars

\* C37: every connection in the registry has an open queue; a queue is
\* closed only once, and only in the step that takes its connection out of
\* the registry; the registry changes only in steps of the running Run loop.
C37_RegistryOwnsQueues ==
    /\ \A c \in clients : closeCount[c] = 0
    /\ [][/\ \A c \in clients' : closeCount'[c] = 0
          /\ \A c \in Conn :
                closeCount'[c] # closeCount[c] =>
                    /\ closeCount[c] = 0 /\ closeCount'[c] = 1
                    /\ c \in clients /\ c \notin clients'
          /\ clients' # clients => hubRunning]_vars

\* the hub has closed the queue of a slow connection and taken it out of
\* the registry, in which another connection remains with its queue open
C37_Witness ==
    \E c \in dropped, d \in clients :
        /\ c # d
        /\ closeCount[c] = 1 /\ c \notin clients
        /\ closeCount[d] = 0
        /\ ~crashed

====
